---- MODULE Spec2Model ----
(***************************************************************************)
(* Configuration resolution of the SUPER analyzer (src/src/config.rs):     *)
(* built-in defaults, then the system-wide and the local config.toml       *)
(* merged key by key by Config::load_from_file, then the readiness check.  *)
(*                                                                         *)
(* Strings are sequences of tokens; "/" and "." are tokens of their own,   *)
(* every other token is a run of characters holding neither of the two.    *)
(* A TOML value is a record [t |-> its variant, v |-> its payload]; a      *)
(* table is a function from its keys to values.                            *)
(***************************************************************************)
EXTENDS Integers, Sequences, FiniteSets, TLC

VARIABLES
    config,     \* the Config under construction / constructed
    pre,        \* config as it was when load_from_file was last entered
    doc,        \* the document load_from_file was last handed
    warnings,   \* the print_warning calls of the last load_from_file, in order
    pc,         \* position in the run: "default", "constructed", "etc", "local", "win", "ok", "err", "exit"
    exit_code,  \* the code handed to process::exit, "none" while running
    plan,       \* the families the two configuration files are drawn from
    fs,         \* the paths that exist on the filesystem
    result,     \* <<b>> when the last call of check() returned b, <<>> before it
    errors,     \* <<e>> when the last call of get_errors() returned e, <<>> before it
    os          \* the target the program was built for: "linux", "macos", "windows"

vars == <<config, pre, doc, warnings, pc, exit_code, plan, fs, result, errors, os>>

(***************************************************************************)
(* Bounds of the model.                                                    *)
(***************************************************************************)
MaxKeys == 2        \* keys of a document that sets several keys
MaxPerms == 2       \* elements of a `permissions` array

(***************************************************************************)
(* Program constants.                                                      *)
(***************************************************************************)
U8_MAX == 255
MAX_THREADS == U8_MAX

(***************************************************************************)
(* TOML values.                                                            *)
(***************************************************************************)
VInteger(n) == [t |-> "Integer", v |-> n]
VString(s) == [t |-> "String", v |-> s]
VArray(a) == [t |-> "Array", v |-> a]
VTable(f) == [t |-> "Table", v |-> f]

(***************************************************************************)
(* Paths.                                                                  *)
(***************************************************************************)
IsAbsolute(p) == Len(p) > 0 /\ p[1] = "/"

\* PathBuf::join / push: an absolute argument replaces the path
Join(a, b) ==
    IF IsAbsolute(b) THEN b
    ELSE IF Len(a) = 0 THEN b
    ELSE IF a[Len(a)] = "/" THEN a \o b
    ELSE a \o <<"/">> \o b

\* the path without the trailing separators and "." components that
\* Path::components() drops
RECURSIVE Trimmed(_)
Trimmed(p) ==
    IF Len(p) >= 2 /\ p[Len(p)] = "/" THEN Trimmed(SubSeq(p, 1, Len(p) - 1))
    ELSE IF Len(p) >= 2 /\ p[Len(p)] = "." /\ p[Len(p) - 1] = "/"
         THEN Trimmed(SubSeq(p, 1, Len(p) - 1))
    ELSE p

LastIndexOf(p, tok) ==
    LET I == {i \in 1..Len(p) : p[i] = tok}
    IN  IF I = {} THEN 0 ELSE CHOOSE i \in I : \A j \in I : j <= i

\* Path::file_name: the last component when it is a normal one, <<>> for none
FileName(p) ==
    LET q == Trimmed(p)
        n == SubSeq(q, LastIndexOf(q, "/") + 1, Len(q))
    IN  IF n = <<".", ".">> \/ n = <<".">> THEN <<>> ELSE n

\* Path::extension answering for a name that only starts with a dot as well
ExtensionOfDotFile(p) ==
    LET n == FileName(p)
        i == LastIndexOf(n, ".")
    IN  IF i <= 0 THEN [some |-> FALSE, ext |-> <<>>]
        ELSE [some |-> TRUE, ext |-> SubSeq(n, i + 1, Len(n))]

\* Path::extension: [some |-> FALSE] when there is no file name, no dot in it,
\* or nothing before its last dot; else what follows the last dot
Extension(p) ==
    LET n == FileName(p)
        i == LastIndexOf(n, ".")
    IN  IF i <= 1 THEN [some |-> FALSE, ext |-> <<>>]
        ELSE [some |-> TRUE, ext |-> SubSeq(n, i + 1, Len(n))]

(***************************************************************************)
(* Criticity and Permission: parsed by name, declared outside config.rs.   *)
(***************************************************************************)
CriticityFromStr(s) ==
    IF s = <<"warning">> THEN "Warning"
    ELSE IF s = <<"low">> THEN "Low"
    ELSE IF s = <<"medium">> THEN "Medium"
    ELSE IF s = <<"high">> THEN "High"
    ELSE IF s = <<"critical">> THEN "Critical"
    ELSE "Err"

N_internet == <<"android", ".", "permission", ".", "INTERNET">>
N_camera == <<"android", ".", "permission", ".", "CAMERA">>
N_bogus == <<"android", ".", "permission", ".", "NO_SUCH">>
N_unknown == <<"unknown">>

PermissionFromStr(s) ==
    IF s = N_internet THEN "AndroidPermissionInternet"
    ELSE IF s = N_camera THEN "AndroidPermissionCamera"
    ELSE "Err"

(***************************************************************************)
(* PermissionConfig and the BTreeSet of them.                              *)
(***************************************************************************)
\* the constructor with label and description taken for each other
PermissionConfigNewSwapped(permission, criticity, label, description) ==
    [permission |-> permission, criticity |-> criticity,
     label |-> description, description |-> label]

PermissionConfigNew(permission, criticity, label, description) ==
    [permission |-> permission, criticity |-> criticity,
     label |-> label, description |-> description]

\* #[derive(Ord)]: cmp compares the fields in declaration order, so it answers
\* Equal exactly when all four fields are equal (the hand-written PartialEq
\* and PartialOrd, which look at the permission alone, are not what a BTreeSet
\* consults)
OrdEqual(a, b) ==
    /\ a.permission = b.permission
    /\ a.criticity = b.criticity
    /\ a.label = b.label
    /\ a.description = b.description

\* BTreeSet::insert: searches with Ord::cmp, keeps the stored value on Equal
BTreeInsert(set, rule) ==
    IF \E r \in set : OrdEqual(r, rule) THEN set ELSE set \cup {rule}

(***************************************************************************)
(* Defaults.                                                               *)
(***************************************************************************)
DefaultDescription == <<"Even if the application can create its own permissions">>
SharePath == <<"/", "usr", "/", "share", "/", "super">>
EtcRules == <<"/", "etc", "/", "super", "/", "rules", ".", "json">>
ApktoolName == <<"apktool_2", ".", "2", ".", "0", ".", "jar">>
Dex2jarName == <<"dex2jar-2", ".", "0">>
JdCmdName == <<"jd-cmd", ".", "jar">>

\* Config::local_default() starting with one thread
LocalDefaultOneThread ==
    [app_package |-> <<>>, verbose |-> FALSE, quiet |-> FALSE, force |-> FALSE,
     bench |-> FALSE, open |-> FALSE, threads |-> 1,
     downloads_folder |-> <<"downloads">>, dist_folder |-> <<"dist">>,
     results_folder |-> <<"results">>,
     apktool_file |-> Join(<<"vendor">>, ApktoolName),
     dex2jar_folder |-> Join(<<"vendor">>, Dex2jarName),
     jd_cmd_file |-> Join(<<"vendor">>, JdCmdName),
     templates_folder |-> <<"templates">>, template |-> <<"super">>,
     rules_json |-> <<"rules", ".", "json">>,
     unknown_permission |-> <<"Low", DefaultDescription>>,
     permissions |-> {}, loaded_files |-> <<>>]

local_default ==
    [app_package |-> <<>>,
     verbose |-> FALSE, quiet |-> FALSE, force |-> FALSE,
     bench |-> FALSE, open |-> FALSE,
     threads |-> 2,
     downloads_folder |-> <<"downloads">>,
     dist_folder |-> <<"dist">>,
     results_folder |-> <<"results">>,
     apktool_file |-> Join(<<"vendor">>, ApktoolName),
     dex2jar_folder |-> Join(<<"vendor">>, Dex2jarName),
     jd_cmd_file |-> Join(<<"vendor">>, JdCmdName),
     templates_folder |-> <<"templates">>,
     template |-> <<"super">>,
     rules_json |-> <<"rules", ".", "json">>,
     unknown_permission |-> <<"Low", DefaultDescription>>,
     permissions |-> {},
     loaded_files |-> <<>>]

\* the shared installation directory of a macos build
MacSharePath == <<"/", "usr", "/", "local", "/", "super">>

\* share_path of a unix build for the target o
SharePathOf(o) == IF o = "macos" THEN MacSharePath ELSE SharePath

\* impl Default for Config (unix) whose second probe is made only when the
\* first one found the rules file
DefaultUnixNested(share_path, files) ==
    IF EtcRules \in files
    THEN LET c1 == [local_default EXCEPT !.rules_json = EtcRules]
         IN  IF share_path \in files
             THEN [c1 EXCEPT
                     !.apktool_file = Join(share_path, <<"vendor", "/">> \o ApktoolName),
                     !.dex2jar_folder = Join(share_path, <<"vendor", "/">> \o Dex2jarName),
                     !.jd_cmd_file = Join(share_path, <<"vendor", "/">> \o JdCmdName),
                     !.templates_folder = Join(share_path, <<"templates">>)]
             ELSE c1
    ELSE local_default

\* impl Default for Config (unix): the two probes of the filesystem
DefaultUnix(share_path, files) ==
    LET c1 == IF EtcRules \in files
              THEN [local_default EXCEPT !.rules_json = EtcRules]
              ELSE local_default
    IN  IF share_path \in files
        THEN [c1 EXCEPT
                !.apktool_file = Join(share_path, <<"vendor", "/">> \o ApktoolName),
                !.dex2jar_folder = Join(share_path, <<"vendor", "/">> \o Dex2jarName),
                !.jd_cmd_file = Join(share_path, <<"vendor", "/">> \o JdCmdName),
                !.templates_folder = Join(share_path, <<"templates">>)]
        ELSE c1

\* impl Default for Config of a linux build
Default(files) == DefaultUnix(SharePath, files)

\* impl Default for Config of the build for the target o
DefaultOn(o, files) ==
    IF o = "windows" THEN local_default ELSE DefaultUnix(SharePathOf(o), files)

(***************************************************************************)
(* Config::load_from_file.  A load in progress is [cfg, warn]: the Config  *)
(* and the warnings printed so far.                                        *)
(***************************************************************************)
Warn(st, key, kind) == [st EXCEPT !.warn = Append(@, <<key, kind>>)]

\* `value as u8`
AsU8(n) == n % (U8_MAX + 1)

\* the "threads" arm with the upper limit one too high
LoadThreadsOneMore(st, value) ==
    IF value.t = "Integer" /\ 1 <= value.v /\ value.v <= MAX_THREADS + 1
    THEN [st EXCEPT !.cfg.threads = AsU8(value.v)]
    ELSE Warn(st, "threads", "range")

\* the "threads" arm
LoadThreads(st, value) ==
    IF value.t = "Integer" /\ 1 <= value.v /\ value.v <= MAX_THREADS
    THEN [st EXCEPT !.cfg.threads = AsU8(value.v)]
    ELSE Warn(st, "threads", "range")

\* those arms keeping a value an earlier document has set
LoadStringOnce(st, key, value) ==
    IF value.t = "String"
    THEN IF st.cfg[key] = local_default[key] THEN [st EXCEPT !.cfg[key] = value.v] ELSE st
    ELSE Warn(st, key, "type")

\* those arms pushing the string onto the path the field holds
LoadStringPush(st, key, value) ==
    IF value.t = "String"
    THEN [st EXCEPT !.cfg[key] = Join(@, value.v)]
    ELSE Warn(st, key, "type")

\* the arms of the keys that take any string
LoadString(st, key, value) ==
    IF value.t = "String"
    THEN [st EXCEPT !.cfg[key] = value.v]
    ELSE Warn(st, key, "type")

\* the arms of apktool_file, jd_cmd_file (jar) and rules_json (json)
LoadFileWithExtension(st, key, value, ext) ==
    IF value.t = "String"
    THEN IF Extension(value.v).some /\ Extension(value.v).ext = <<ext>>
         THEN [st EXCEPT !.cfg[key] = value.v]
         ELSE Warn(st, key, "extension")
    ELSE Warn(st, key, "type")

\* Table::get(key) answering Some(&Value::String(_))
HasString(tbl, key) == key \in DOMAIN tbl /\ tbl[key].t = "String"

\* one pass of the body of `for cfg in p`: [st, brk] where brk says the
\* body ended in `break`
PermissionEntry(st, elem) ==
    IF elem.t # "Table"
    THEN [st |-> Warn(st, "permissions", "format"), brk |-> TRUE]
    ELSE LET cfg == elem.v IN
    IF ~HasString(cfg, "name")
    THEN [st |-> Warn(st, "permissions", "format"), brk |-> TRUE]
    ELSE IF ~HasString(cfg, "criticity")
    THEN [st |-> Warn(st, "permissions", "format"), brk |-> TRUE]
    ELSE IF CriticityFromStr(cfg["criticity"].v) = "Err"
    THEN [st |-> Warn(st, "permissions", "criticity"), brk |-> TRUE]
    ELSE IF ~HasString(cfg, "description")
    THEN [st |-> Warn(st, "permissions", "format"), brk |-> TRUE]
    ELSE LET name == cfg["name"].v
             criticity == CriticityFromStr(cfg["criticity"].v)
             description == cfg["description"].v
         IN
    IF name = N_unknown
    THEN IF Cardinality(DOMAIN cfg) # 3
         THEN [st |-> Warn(st, "permissions", "unknown_format"), brk |-> TRUE]
         ELSE [st |-> [st EXCEPT !.cfg.unknown_permission = <<criticity, description>>],
               brk |-> FALSE]
    ELSE IF Cardinality(DOMAIN cfg) # 4
    THEN [st |-> Warn(st, "permissions", "format"), brk |-> TRUE]
    ELSE IF PermissionFromStr(name) = "Err"
    THEN [st |-> Warn(st, "permissions", "unknown_permission"), brk |-> TRUE]
    ELSE IF ~HasString(cfg, "label")
    THEN [st |-> Warn(st, "permissions", "format"), brk |-> TRUE]
    ELSE [st |-> [st EXCEPT !.cfg.permissions =
                     BTreeInsert(@, PermissionConfigNew(PermissionFromStr(name),
                                                        criticity,
                                                        cfg["label"].v,
                                                        description))],
          brk |-> FALSE]

\* the loop with `continue` where the code has `break`
RECURSIVE PermissionLoopContinue(_, _, _)
PermissionLoopContinue(st, p, i) ==
    IF i > Len(p) THEN st
    ELSE PermissionLoopContinue(PermissionEntry(st, p[i]).st, p, i + 1)

\* `for cfg in p { ... }` from element i on
RECURSIVE PermissionLoop(_, _, _)
PermissionLoop(st, p, i) ==
    IF i > Len(p) THEN st
    ELSE LET r == PermissionEntry(st, p[i])
         IN  IF r.brk THEN r.st ELSE PermissionLoop(r.st, p, i + 1)

\* the "permissions" arm
LoadPermissions(st, value) ==
    IF value.t = "Array"
    THEN PermissionLoop(st, value.v, 1)
    ELSE Warn(st, "permissions", "type")

\* the match with an arm that takes the key "verbose" for the verbose flag
LoadKeyVerbose(st, key, value) ==
    CASE key = "threads" -> LoadThreads(st, value)
      [] key \in {"downloads_folder", "dist_folder", "results_folder",
                  "dex2jar_folder", "templates_folder", "template"}
            -> LoadString(st, key, value)
      [] key \in {"apktool_file", "jd_cmd_file"}
            -> LoadFileWithExtension(st, key, value, "jar")
      [] key = "rules_json" -> LoadFileWithExtension(st, key, value, "json")
      [] key = "permissions" -> LoadPermissions(st, value)
      [] key = "verbose" -> [st EXCEPT !.cfg.verbose = ~@]
      [] OTHER -> Warn(st, key, "unknown_option")

\* `match key.as_str()`
LoadKey(st, key, value) ==
    CASE key = "threads" -> LoadThreads(st, value)
      [] key \in {"downloads_folder", "dist_folder", "results_folder",
                  "dex2jar_folder", "templates_folder", "template"}
            -> LoadString(st, key, value)
      [] key \in {"apktool_file", "jd_cmd_file"}
            -> LoadFileWithExtension(st, key, value, "jar")
      [] key = "rules_json" -> LoadFileWithExtension(st, key, value, "json")
      [] key = "permissions" -> LoadPermissions(st, value)
      [] OTHER -> Warn(st, key, "unknown_option")

\* the keys a document of the model may hold, in the order the parsed table
\* (a BTreeMap) yields them
KeyOrder ==
    <<"apktool_file", "dex2jar_folder", "dist_folder", "downloads_folder",
      "jd_cmd_file", "permissions", "results_folder", "rules_json",
      "template", "templates_folder", "threads", "verbose">>

\* the loop over the keys ended by the first warning
RECURSIVE LoadKeysUntilWarning(_, _, _)
LoadKeysUntilWarning(st, toml, i) ==
    IF i > Len(KeyOrder) \/ st.warn # <<>> THEN st
    ELSE IF KeyOrder[i] \in DOMAIN toml
         THEN LoadKeysUntilWarning(LoadKey(st, KeyOrder[i], toml[KeyOrder[i]]), toml, i + 1)
         ELSE LoadKeysUntilWarning(st, toml, i + 1)

\* `for (key, value) in toml { ... }` from the i-th key on
RECURSIVE LoadKeys(_, _, _)
LoadKeys(st, toml, i) ==
    IF i > Len(KeyOrder) THEN st
    ELSE IF KeyOrder[i] \in DOMAIN toml
         THEN LoadKeys(LoadKey(st, KeyOrder[i], toml[KeyOrder[i]]), toml, i + 1)
         ELSE LoadKeys(st, toml, i + 1)

\* load_from_file on a document that parsed
LoadTable(cfg, toml) == LoadKeys([cfg |-> cfg, warn |-> <<>>], toml, 1)

(***************************************************************************)
(* The documents of the model.                                             *)
(***************************************************************************)
EmptyTable == [k \in {} |-> VInteger(0)]
NoDoc == [kind |-> "none", toml |-> EmptyTable]
Unparseable == [kind |-> "invalid", toml |-> EmptyTable]
Unreadable == [kind |-> "ioerror", toml |-> EmptyTable]
Parsed(toml) == [kind |-> "toml", toml |-> toml]

PathA == <<"a">>
PathB == <<"b", "/", "c">>
NotAString == VInteger(7)

\* strings offered to the keys that want a file with the extension e
WithExtension(e, other) ==
    {<<"x", ".", e>>, <<"d", "/", "y", ".", e>>, <<"x", ".", e, "/">>,
     <<"x", ".", other>>, <<"x">>, <<".", e>>, <<"d", ".", e, "/", "x">>}

ScalarKeys ==
    {"threads", "downloads_folder", "dist_folder", "results_folder",
     "apktool_file", "dex2jar_folder", "jd_cmd_file", "templates_folder",
     "template", "rules_json"}
StringKeys ==
    {"downloads_folder", "dist_folder", "results_folder", "dex2jar_folder",
     "templates_folder", "template"}

\* elements of a `permissions` array
E_unknown_low ==
    VTable([name |-> VString(N_unknown), criticity |-> VString(<<"low">>),
            description |-> VString(<<"d">>)])
E_unknown_critical ==
    VTable([name |-> VString(N_unknown), criticity |-> VString(<<"critical">>),
            description |-> VString(<<"d2">>)])
E_internet_warning ==
    VTable([name |-> VString(N_internet), criticity |-> VString(<<"warning">>),
            label |-> VString(<<"L">>), description |-> VString(<<"d2">>)])
E_internet_high ==
    VTable([name |-> VString(N_internet), criticity |-> VString(<<"high">>),
            label |-> VString(<<"L2">>), description |-> VString(<<"d">>)])
E_camera_medium ==
    VTable([name |-> VString(N_camera), criticity |-> VString(<<"medium">>),
            label |-> VString(<<"L">>), description |-> VString(<<"d">>)])
E_not_table == VString(N_internet)
E_no_name ==
    VTable([criticity |-> VString(<<"low">>), label |-> VString(<<"L">>),
            description |-> VString(<<"d">>)])
E_name_not_string ==
    VTable([name |-> NotAString, criticity |-> VString(<<"low">>),
            description |-> VString(<<"d">>)])
E_no_criticity ==
    VTable([name |-> VString(N_unknown), label |-> VString(<<"L">>),
            description |-> VString(<<"d">>)])
E_bad_criticity ==
    VTable([name |-> VString(N_camera), criticity |-> VString(<<"Low">>),
            label |-> VString(<<"L">>), description |-> VString(<<"d">>)])
E_criticity_not_string ==
    VTable([name |-> VString(N_unknown), criticity |-> NotAString,
            description |-> VString(<<"d">>)])
E_no_description ==
    VTable([name |-> VString(N_unknown), criticity |-> VString(<<"low">>),
            label |-> VString(<<"L">>)])
E_description_not_string ==
    VTable([name |-> VString(N_camera), criticity |-> VString(<<"low">>),
            label |-> VString(<<"L">>), description |-> NotAString])
E_unknown_extra ==
    VTable([name |-> VString(N_unknown), criticity |-> VString(<<"high">>),
            label |-> VString(<<"L">>), description |-> VString(<<"d">>)])
E_named_no_label ==
    VTable([name |-> VString(N_camera), criticity |-> VString(<<"high">>),
            description |-> VString(<<"d">>)])
E_named_extra ==
    VTable([name |-> VString(N_camera), criticity |-> VString(<<"high">>),
            label |-> VString(<<"L">>), description |-> VString(<<"d">>),
            url |-> VString(<<"u">>)])
E_named_other_key ==
    VTable([name |-> VString(N_camera), criticity |-> VString(<<"high">>),
            url |-> VString(<<"u">>), description |-> VString(<<"d">>)])
E_bad_name ==
    VTable([name |-> VString(N_bogus), criticity |-> VString(<<"high">>),
            label |-> VString(<<"L">>), description |-> VString(<<"d">>)])
E_label_not_string ==
    VTable([name |-> VString(N_camera), criticity |-> VString(<<"high">>),
            label |-> NotAString, description |-> VString(<<"d">>)])

WellFormed ==
    {E_unknown_low, E_unknown_critical, E_internet_warning, E_internet_high,
     E_camera_medium}
Malformed ==
    {E_not_table, E_no_name, E_name_not_string, E_no_criticity,
     E_criticity_not_string, E_bad_criticity, E_no_description,
     E_description_not_string, E_unknown_extra, E_named_no_label, E_named_extra,
     E_named_other_key, E_bad_name, E_label_not_string}
Elements == WellFormed \cup Malformed

\* the sequences over S of length at most n
RECURSIVE SeqsUpTo(_, _)
SeqsUpTo(S, n) ==
    IF n = 0 THEN {<<>>}
    ELSE LET shorter == SeqsUpTo(S, n - 1)
         IN  shorter \cup {Append(q, e) : q \in {x \in shorter : Len(x) = n - 1}, e \in S}

\* a malformed element between two well-formed ones
Sandwiches == {<<g, b, h>> : g \in WellFormed, b \in Malformed, h \in WellFormed}

PermissionArrays == SeqsUpTo(Elements, MaxPerms) \cup Sandwiches

\* every value a document with a single key gives that key
Values(key) ==
    CASE key = "threads" ->
            {VInteger(n) : n \in {-1, 0, 1, U8_MAX, U8_MAX + 1}} \cup {VString(<<"4">>)}
      [] key \in StringKeys -> {VString(PathA), VString(PathB), NotAString}
      [] key \in {"apktool_file", "jd_cmd_file"} ->
            {VString(p) : p \in WithExtension("jar", "json")} \cup {NotAString}
      [] key = "rules_json" ->
            {VString(p) : p \in WithExtension("json", "jar")} \cup {NotAString}
      [] key = "permissions" ->
            {NotAString, VArray(<<E_internet_warning>>),
             VArray(<<E_bad_criticity, E_camera_medium>>)}
      [] OTHER -> {VInteger(1)}

\* the values a document with several keys gives a key
FewValues(key) ==
    CASE key = "threads" -> {VInteger(1), VInteger(0)}
      [] key \in StringKeys -> {VString(PathA), NotAString}
      [] key \in {"apktool_file", "jd_cmd_file"} ->
            {VString(<<"x", ".", "jar">>), VString(<<"x">>)}
      [] key = "rules_json" -> {VString(<<"x", ".", "json">>), VString(<<"x">>)}
      [] key = "permissions" ->
            {NotAString, VArray(<<E_bad_criticity, E_camera_medium>>)}
      [] OTHER -> {VInteger(1)}

AllKeys == {KeyOrder[i] : i \in 1..Len(KeyOrder)}

\* the tables with exactly the keys K
RECURSIVE TablesOver(_)
TablesOver(K) ==
    IF K = {} THEN {EmptyTable}
    ELSE LET k == CHOOSE x \in K : TRUE
         IN  {(k :> v) @@ t : v \in FewValues(k), t \in TablesOver(K \ {k})}

SingleKeyTables == UNION {{(k :> v) : v \in Values(k)} : k \in AllKeys}
SeveralKeyTables ==
    UNION {TablesOver(K) : K \in {X \in SUBSET AllKeys :
                                    Cardinality(X) >= 2 /\ Cardinality(X) <= MaxKeys}}
PermissionTables == {("permissions" :> VArray(a)) : a \in PermissionArrays}
RuleTables == {("permissions" :> VArray(a)) : a \in SeqsUpTo(WellFormed, 1)}

ThreadsTables == {("threads" :> v) : v \in Values("threads")}

TablesOf(f) ==
    CASE f = "single" -> SingleKeyTables \cup {EmptyTable}
      [] f = "several" -> SeveralKeyTables
      [] f = "permissions" -> PermissionTables
      [] f = "rules" -> RuleTables
      [] f = "threads" -> ThreadsTables

\* what a configuration file of the family f may turn out to be
FilesOf(f) == {Parsed(t) : t \in TablesOf(f)} \cup {Unparseable, Unreadable}

\* the families of the system-wide and of the local file of a run
Plans ==
    {<<"single", "single">>, <<"single", "several">>, <<"several", "single">>,
     <<"permissions", "rules">>, <<"rules", "permissions">>}

(***************************************************************************)
(* Config::new (unix).                                                     *)
(***************************************************************************)
EtcConfig == <<"/", "etc", "/", "config", ".", "toml">>
LocalConfig == <<".", "/", "config", ".", "toml">>

\* Path::exists
Exists(p) == p \in fs

\* the load of a file pushing the path before the document is parsed
LoadFromFilePushFirst(path, d, next) ==
    /\ pre' = config
    /\ doc' = d
    /\ CASE d.kind = "ioerror" ->
              /\ pc' = "err"
              /\ UNCHANGED <<config, exit_code>>
              /\ warnings' = <<>>
         [] d.kind = "invalid" ->
              /\ pc' = "exit"
              /\ exit_code' = "ParseError"
              /\ config' = [config EXCEPT !.loaded_files = Append(@, path)]
              /\ warnings' = <<>>
         [] OTHER ->
              LET st == LoadTable(config, d.toml)
              IN  /\ config' = [st.cfg EXCEPT !.loaded_files = Append(@, path)]
                  /\ warnings' = st.warn
                  /\ pc' = next
                  /\ UNCHANGED exit_code
    /\ UNCHANGED <<plan, fs, result, errors, os>>

\* try!(Config::load_from_file(&mut config, path, verbose)) and the push of the
\* path that follows it, the file at path holding d
LoadFromFile(path, d, next) ==
    /\ pre' = config
    /\ doc' = d
    /\ CASE d.kind = "ioerror" ->
              /\ pc' = "err"
              /\ UNCHANGED <<config, exit_code>>
              /\ warnings' = <<>>
         [] d.kind = "invalid" ->
              /\ pc' = "exit"
              /\ exit_code' = "ParseError"
              /\ UNCHANGED config
              /\ warnings' = <<>>
         [] OTHER ->
              LET st == LoadTable(config, d.toml)
              IN  /\ config' = [st.cfg EXCEPT !.loaded_files = Append(@, path)]
                  /\ warnings' = st.warn
                  /\ pc' = next
                  /\ UNCHANGED exit_code
    /\ UNCHANGED <<plan, fs, result, errors, os>>

\* `if Path::new(path).exists() { ... }`
Candidate(path, files, next) ==
    IF Exists(path)
    THEN \E d \in files : LoadFromFile(path, d, next)
    ELSE /\ pc' = next
         /\ UNCHANGED <<config, pre, doc, warnings, exit_code, plan, fs, result, errors, os>>

NewSystemFile == pc = "etc" /\ Candidate(EtcConfig, FilesOf(plan[1]), "local")

\* the second `if` of Config::new pushing the path of the first
NewLocalFileCopied ==
    /\ pc = "local"
    /\ IF Exists(LocalConfig)
       THEN \E d \in FilesOf(plan[2]) : LoadFromFile(EtcConfig, d, "ok")
       ELSE pc' = "ok" /\ UNCHANGED <<config, pre, doc, warnings, exit_code, plan, fs, result, errors, os>>

NewLocalFile == pc = "local" /\ Candidate(LocalConfig, FilesOf(plan[2]), "ok")

\* the filesystems the runs start on
Hosts == {{}, {EtcRules, SharePath}}
Filesystems == {h \cup c : h \in Hosts, c \in SUBSET {EtcConfig, LocalConfig}}

\* the arguments of Config::new
Args(package, flag) ==
    [app_package |-> package, verbose |-> flag, quiet |-> flag, force |-> flag,
     bench |-> flag, open |-> flag]
NewArgs == {Args(<<"test_app">>, FALSE), Args(<<"com", ".", "app">>, TRUE)}

\* Config::new up to its first `if`: the default Config with the flags stored
Injected(files, a) ==
    [Default(files) EXCEPT
        !.app_package = a.app_package, !.verbose = a.verbose, !.quiet = a.quiet,
        !.force = a.force, !.bench = a.bench, !.open = a.open]

InitNew(filesystems, args, plans) ==
    /\ fs \in filesystems
    /\ config \in {Injected(fs, a) : a \in args}
    /\ pre = config
    /\ doc = NoDoc
    /\ warnings = <<>>
    /\ pc = "etc"
    /\ exit_code = "none"
    /\ plan \in plans
    /\ result = <<>>
    /\ errors = <<>>
    /\ os = "linux"

Init == InitNew(Filesystems, NewArgs, Plans)

Next == NewSystemFile \/ NewLocalFile

Spec == Init /\ [][Next]_vars

(***************************************************************************)
(* Config::new on a host whose local file is a copy of the system-wide     *)
(* one: the same document is loaded twice in a row.                        *)
(***************************************************************************)
\* what ./config.toml may turn out to be when it is a copy of the file the
\* run has loaded before
CopiesOf(d) == IF d.kind = "toml" THEN {d} ELSE FilesOf(plan[2])

NewLocalCopy == pc = "local" /\ Candidate(LocalConfig, CopiesOf(doc), "ok")

NextSame == NewSystemFile \/ NewLocalCopy

SpecSame == Init /\ [][NextSame]_vars

(***************************************************************************)
(* Config::new from Default::default() on, for the three targets.  The     *)
(* windows build has the one candidate file config.toml.                   *)
(***************************************************************************)
Systems == {"linux", "macos", "windows"}

WindowsConfig == <<"config", ".", "toml">>

\* the paths Default::default() and Config::new probe
Probed == {EtcRules, SharePath, MacSharePath, EtcConfig, LocalConfig, WindowsConfig}

\* Default::default() has built Config::local_default() and is about to probe
InitDefault ==
    /\ os \in Systems
    /\ fs \in SUBSET Probed
    /\ config = local_default
    /\ pre = config
    /\ doc = NoDoc
    /\ warnings = <<>>
    /\ pc = "default"
    /\ exit_code = "none"
    /\ plan = <<"threads", "threads">>
    /\ result = <<>>
    /\ errors = <<>>

DefaultConfig ==
    /\ pc = "default"
    /\ config' = DefaultOn(os, fs)
    /\ pre' = config'
    /\ pc' = "constructed"
    /\ UNCHANGED <<doc, warnings, exit_code, plan, fs, result, errors, os>>

\* Config::new between Default::default() and its first `if`
InjectArgs ==
    /\ pc = "constructed"
    /\ \E a \in NewArgs :
          config' = [config EXCEPT
                        !.app_package = a.app_package, !.verbose = a.verbose,
                        !.quiet = a.quiet, !.force = a.force, !.bench = a.bench,
                        !.open = a.open]
    /\ pre' = config'
    /\ pc' = IF os = "windows" THEN "win" ELSE "etc"
    /\ UNCHANGED <<doc, warnings, exit_code, plan, fs, result, errors, os>>

NewWindowsFile == pc = "win" /\ Candidate(WindowsConfig, FilesOf(plan[2]), "ok")

NextNew ==
    DefaultConfig \/ InjectArgs \/ NewSystemFile \/ NewLocalFile \/ NewWindowsFile

SpecNew == InitDefault /\ [][NextNew]_vars

(***************************************************************************)
(* The setters, called on the Config that Config::new returned.            *)
(***************************************************************************)
U8Samples == {0, 1, U8_MAX}
Packages == {<<"test_app">>, <<>>}

SetAppPackage ==
    /\ pc = "ok"
    /\ \E app_package \in Packages : config' = [config EXCEPT !.app_package = app_package]
    /\ UNCHANGED <<pre, doc, warnings, pc, exit_code, plan, fs, result, errors, os>>

SetVerbose ==
    /\ pc = "ok"
    /\ \E verbose \in BOOLEAN : config' = [config EXCEPT !.verbose = verbose]
    /\ UNCHANGED <<pre, doc, warnings, pc, exit_code, plan, fs, result, errors, os>>

SetQuiet ==
    /\ pc = "ok"
    /\ \E quiet \in BOOLEAN : config' = [config EXCEPT !.quiet = quiet]
    /\ UNCHANGED <<pre, doc, warnings, pc, exit_code, plan, fs, result, errors, os>>

SetForce ==
    /\ pc = "ok"
    /\ \E force \in BOOLEAN : config' = [config EXCEPT !.force = force]
    /\ UNCHANGED <<pre, doc, warnings, pc, exit_code, plan, fs, result, errors, os>>

SetBench ==
    /\ pc = "ok"
    /\ \E bench \in BOOLEAN : config' = [config EXCEPT !.bench = bench]
    /\ UNCHANGED <<pre, doc, warnings, pc, exit_code, plan, fs, result, errors, os>>

SetOpen ==
    /\ pc = "ok"
    /\ \E open \in BOOLEAN : config' = [config EXCEPT !.open = open]
    /\ UNCHANGED <<pre, doc, warnings, pc, exit_code, plan, fs, result, errors, os>>

SetThreads ==
    /\ pc = "ok"
    /\ \E threads \in U8Samples : config' = [config EXCEPT !.threads = threads]
    /\ UNCHANGED <<pre, doc, warnings, pc, exit_code, plan, fs, result, errors, os>>

InitApi ==
    InitNew({{}, {EtcConfig, LocalConfig}}, {Args(<<"test_app">>, FALSE)},
            {<<"threads", "threads">>})

NextApi ==
    \/ NewSystemFile
    \/ NewLocalFile
    \/ SetAppPackage
    \/ SetVerbose
    \/ SetQuiet
    \/ SetForce
    \/ SetBench
    \/ SetOpen
    \/ SetThreads

SpecApi == InitApi /\ [][NextApi]_vars

(***************************************************************************)
(* Config::check.                                                          *)
(***************************************************************************)
GetApkFile(c) == Join(c.downloads_folder, c.app_package \o <<".", "apk">>)

GetTemplatePath(c) == Join(c.templates_folder, c.template)

\* check() testing the templates folder where the code tests the template
CheckOfTemplatesFolder(c, files) ==
    /\ c.downloads_folder \in files
    /\ GetApkFile(c) \in files
    /\ c.apktool_file \in files
    /\ c.dex2jar_folder \in files
    /\ c.jd_cmd_file \in files
    /\ c.templates_folder \in files
    /\ c.rules_json \in files

CheckOf(c, files) ==
    /\ c.downloads_folder \in files
    /\ GetApkFile(c) \in files
    /\ c.apktool_file \in files
    /\ c.dex2jar_folder \in files
    /\ c.jd_cmd_file \in files
    /\ GetTemplatePath(c) \in files
    /\ c.rules_json \in files

Check ==
    /\ pc = "ok"
    /\ result' = <<CheckOf(config, fs)>>
    /\ UNCHANGED <<config, pre, doc, warnings, pc, exit_code, plan, fs, errors, os>>

(***************************************************************************)
(* Config::get_errors.  A message is the item it is about and the values   *)
(* it displays; the Vec is the sequence of the messages pushed.            *)
(***************************************************************************)
ErrorMessage(item, shown) == [item |-> item, shown |-> shown]

\* one `if !<path>.exists() { errors.push(..) }`
PushIfMissing(errs, path, files, item, shown) ==
    IF path \notin files THEN Append(errs, ErrorMessage(item, shown)) ELSE errs

GetErrorsOf(c, files) ==
    LET e1 == PushIfMissing(<<>>, c.downloads_folder, files,
                            "downloads_folder", <<c.downloads_folder>>)
        e2 == PushIfMissing(e1, GetApkFile(c), files,
                            "apk_file", <<GetApkFile(c)>>)
        e3 == PushIfMissing(e2, c.apktool_file, files,
                            "apktool_file", <<c.apktool_file>>)
        e4 == PushIfMissing(e3, c.dex2jar_folder, files,
                            "dex2jar_folder", <<c.dex2jar_folder>>)
        e5 == PushIfMissing(e4, c.jd_cmd_file, files,
                            "jd_cmd_file", <<c.jd_cmd_file>>)
        e6 == PushIfMissing(e5, c.templates_folder, files,
                            "templates_folder", <<c.templates_folder>>)
        e7 == PushIfMissing(e6, GetTemplatePath(c), files,
                            "template", <<c.template, c.templates_folder>>)
    IN  PushIfMissing(e7, c.rules_json, files, "rules_json", <<c.rules_json>>)

GetErrors ==
    /\ pc = "ok"
    /\ errors' = <<GetErrorsOf(config, fs)>>
    /\ UNCHANGED <<config, pre, doc, warnings, pc, exit_code, plan, fs, result, os>>

\* Configs that Config::new("test_app", ..) returns
CheckTables ==
    {EmptyTable,
     ("template" :> VString(<<"/", "opt", "/", "report">>)),
     ("templates_folder" :> VString(PathB)),
     ("downloads_folder" :> VString(PathA)) @@ ("rules_json" :> VString(<<"x", ".", "json">>))}
CheckConfigs ==
    {LoadTable(Injected({}, Args(<<"test_app">>, FALSE)), t).cfg : t \in CheckTables}

\* the paths of c whose existence the runs vary
PathsOf(c) ==
    {c.downloads_folder, GetApkFile(c), c.apktool_file, c.dex2jar_folder,
     c.jd_cmd_file, c.templates_folder, GetTemplatePath(c), c.rules_json,
     c.dist_folder, c.results_folder}

\* p is a directory above q
IsAbove(p, q) ==
    /\ Len(p) + 1 < Len(q)
    /\ SubSeq(q, 1, Len(p)) = p
    /\ q[Len(p) + 1] = "/"

\* a file exists only inside directories that exist
Closed(files, universe) ==
    \A q \in files : \A p \in universe : IsAbove(p, q) => p \in files

InitCheck ==
    /\ config \in CheckConfigs
    /\ fs \in {f \in SUBSET PathsOf(config) : Closed(f, PathsOf(config))}
    /\ pre = config
    /\ doc = NoDoc
    /\ warnings = <<>>
    /\ pc = "ok"
    /\ exit_code = "none"
    /\ plan = <<"single", "single">>
    /\ result = <<>>
    /\ errors = <<>>
    /\ os = "linux"

NextCheck == Check \/ GetErrors

SpecCheck == InitCheck /\ [][NextCheck]_vars

(***************************************************************************)
(* Properties.                                                             *)
(***************************************************************************)
\* the last step of Config::new merged the table of doc
Loaded == doc.kind = "toml" /\ pc \in {"local", "ok"}

\* the last load was given a value for key
Given(key) == Loaded /\ key \in DOMAIN doc.toml

\* the warnings the last load printed for key
WarningsFor(key) == Cardinality({i \in 1..Len(warnings) : warnings[i][1] = key})

\* the strings of the model whose file extension is jar, and json
JarPaths == {<<"x", ".", "jar">>, <<"d", "/", "y", ".", "jar">>, <<"x", ".", "jar", "/">>}
JsonPaths == {<<"x", ".", "json">>, <<"d", "/", "y", ".", "json">>, <<"x", ".", "json", "/">>}

\* the value is one the documentation of key allows
Allowed(key, value) ==
    CASE key = "threads" -> value.t = "Integer" /\ value.v >= 1 /\ value.v <= 255
      [] key \in {"apktool_file", "jd_cmd_file"} ->
            value.t = "String" /\ value.v \in JarPaths
      [] key = "rules_json" -> value.t = "String" /\ value.v \in JsonPaths
      [] OTHER -> value.t = "String"

\* C1: the permission set holds at most one rule per Permission, and a load
\* never changes or drops a rule that was stored before it: the first rule
\* inserted for a Permission is the one kept.
C1_FirstInsertedWins ==
    /\ \A r1, r2 \in config.permissions : r1.permission = r2.permission => r1 = r2
    /\ Loaded => pre.permissions \subseteq config.permissions

\* C2: a document that gives a scalar/path key an allowed value leaves the
\* field at that value, whatever an earlier document had set it to: of two
\* documents loaded in sequence the second one's value is the final one.
C2_LastWriterWins ==
    \A key \in ScalarKeys :
        (Given(key) /\ Allowed(key, doc.toml[key])) => config[key] = doc.toml[key].v

\* the local file redeclares dist_folder, which the system-wide file had set
C2_Witness ==
    /\ pc = "ok"
    /\ config.loaded_files = <<EtcConfig, LocalConfig>>
    /\ Given("dist_folder")
    /\ pre.dist_folder = PathA
    /\ doc.toml["dist_folder"] = VString(PathB)
    /\ config.dist_folder = PathB

\* C3: the thread count is in [1,255] in every reachable state, the states
\* after a call of set_threads included.
C3_ThreadsInRange == config.threads >= 1 /\ config.threads <= 255

\* C4: a `threads` value that is an integer n with 1 <= n <= 255 makes the
\* thread count n; any other value leaves the thread count as it was (2 when
\* no document was loaded before) and prints exactly one warning for the key.
C4_ThreadsRule ==
    Given("threads") =>
        LET value == doc.toml["threads"]
        IN  IF value.t = "Integer" /\ value.v >= 1 /\ value.v <= 255
            THEN config.threads = value.v
            ELSE /\ config.threads = pre.threads
                 /\ pre.loaded_files = <<>> => config.threads = 2
                 /\ WarningsFor("threads") = 1

\* the local file asks for 256 threads after the system-wide file set 255
C4_Witness ==
    /\ Given("threads")
    /\ doc.toml["threads"] = VInteger(256)
    /\ pre.threads = 255
    /\ config.threads = 255
    /\ WarningsFor("threads") = 1

\* the last load was given a `permissions` array
GivenArray == Given("permissions") /\ doc.toml["permissions"].t = "Array"

\* what a well-formed element of a `permissions` array declares
IsUnknownEntry(e) == e.v.name.v = <<"unknown">>
IsNamedEntry(e) == e.v.name.v # <<"unknown">>
PermissionOf(e) == PermissionFromStr(e.v.name.v)
UnknownOf(e) == <<CriticityFromStr(e.v.criticity.v), e.v.description.v>>
RuleOf(e) ==
    [permission |-> PermissionOf(e), criticity |-> CriticityFromStr(e.v.criticity.v),
     label |-> e.v.label.v, description |-> e.v.description.v]

\* the unknown-permission default after the well-formed elements a, from before
LastUnknown(a, before) ==
    LET U == {i \in 1..Len(a) : IsUnknownEntry(a[i])}
    IN  IF U = {} THEN before
        ELSE UnknownOf(a[CHOOSE i \in U : \A j \in U : j <= i])

\* the elements of a before its first malformed one
BeforeFirstMalformed(a) ==
    LET B == {i \in 1..Len(a) : a[i] \in Malformed}
    IN  SubSeq(a, 1, (CHOOSE i \in B : \A j \in B : i <= j) - 1)

\* C5: the scan of a `permissions` array stops at its first malformed
\* element: one warning is printed for the array, what the elements before it
\* did stays, and neither that element nor a later one adds a rule or
\* replaces the unknown-permission default.
C5_AbortAtFirstMalformed ==
    (GivenArray /\ \E i \in 1..Len(doc.toml["permissions"].v) :
                        doc.toml["permissions"].v[i] \in Malformed) =>
        LET head == BeforeFirstMalformed(doc.toml["permissions"].v)
            named == {i \in 1..Len(head) : IsNamedEntry(head[i])}
        IN  /\ WarningsFor("permissions") = 1
            /\ pre.permissions \subseteq config.permissions
            /\ \A i \in named :
                  \E r \in config.permissions : r.permission = PermissionOf(head[i])
            /\ \A r \in config.permissions \ pre.permissions :
                  \E i \in named : r = RuleOf(head[i])
            /\ config.unknown_permission = LastUnknown(head, pre.unknown_permission)

\* the second element lacks its label: the camera rule before it is kept, the
\* internet rule after it is not inserted
C5_Witness ==
    /\ GivenArray
    /\ doc.toml["permissions"].v = <<E_camera_medium, E_named_no_label, E_internet_warning>>
    /\ pre.permissions = {}
    /\ config.permissions = {RuleOf(E_camera_medium)}
    /\ WarningsFor("permissions") = 1

\* C6: a `permissions` array of well-formed elements is applied whole and in
\* order: no warning, the unknown-permission default is that of the last
\* "unknown" element, every named element whose Permission had no rule yet
\* inserts the rule with its criticity, label and description, and no rule
\* comes from anywhere else.
C6_WellFormedArrayApplied ==
    (GivenArray /\ \A i \in 1..Len(doc.toml["permissions"].v) :
                        doc.toml["permissions"].v[i] \in WellFormed) =>
        LET a == doc.toml["permissions"].v
            named == {i \in 1..Len(a) : IsNamedEntry(a[i])}
        IN  /\ WarningsFor("permissions") = 0
            /\ config.unknown_permission = LastUnknown(a, pre.unknown_permission)
            /\ \A i \in named :
                  ( /\ \A r \in pre.permissions : r.permission # PermissionOf(a[i])
                    /\ \A j \in named : j < i => PermissionOf(a[j]) # PermissionOf(a[i]) )
                  => RuleOf(a[i]) \in config.permissions
            /\ config.permissions \subseteq pre.permissions \cup {RuleOf(a[i]) : i \in named}

\* the array of the specification's example, loaded into an empty set
C6_Witness ==
    /\ GivenArray
    /\ doc.toml["permissions"].v = <<E_unknown_low, E_internet_warning>>
    /\ pre.permissions = {}
    /\ config.unknown_permission = <<"Low", <<"d">>>>
    /\ config.permissions =
          {[permission |-> "AndroidPermissionInternet", criticity |-> "Warning",
            label |-> <<"L">>, description |-> <<"d2">>]}
    /\ warnings = <<>>

\* C7: a document that does not parse ends the process with the parse-error
\* exit code, and only such a document does; the Config is then as it was
\* when the load started, the loaded-files sequence included.
C7_ParseErrorExits ==
    /\ doc.kind = "invalid" =>
          /\ pc = "exit"
          /\ exit_code = "ParseError"
          /\ config = pre
          /\ config.loaded_files = pre.loaded_files
    /\ (pc = "exit" \/ exit_code # "none") => doc.kind = "invalid"

\* the local file does not parse after the system-wide file was merged
C7_Witness ==
    /\ pc = "exit"
    /\ exit_code = "ParseError"
    /\ doc.kind = "invalid"
    /\ config.loaded_files = <<EtcConfig>>
    /\ EtcConfig \in fs /\ LocalConfig \in fs

\* C8: after a load every scalar/path key the document gives an allowed value
\* holds that value and every other scalar/path field is as before, whatever
\* the other keys of the document are: a warning, the one of an aborted
\* `permissions` array included, does not end the scan.
C8_ScanContinues ==
    Loaded =>
        \A key \in ScalarKeys :
            IF key \in DOMAIN doc.toml /\ Allowed(key, doc.toml[key])
            THEN config[key] = doc.toml[key].v
            ELSE config[key] = pre[key]

\* `threads`, which comes after `permissions`, is merged though the array's
\* scan was aborted
C8_Witness ==
    /\ Given("threads") /\ Given("permissions")
    /\ WarningsFor("permissions") = 1
    /\ doc.toml["permissions"].t = "Array"
    /\ pre.threads = 2
    /\ config.threads = 1

\* C9: apktool_file and jd_cmd_file take a string whose extension is jar,
\* rules_json one whose extension is json, and the path becomes exactly that
\* string; any other value leaves the path as it was and prints exactly one
\* warning.
C9_ExtensionRule ==
    \A key \in {"apktool_file", "jd_cmd_file", "rules_json"} :
        Given(key) =>
            LET value == doc.toml[key]
                wanted == IF key = "rules_json" THEN JsonPaths ELSE JarPaths
            IN  IF value.t = "String" /\ value.v \in wanted
                THEN config[key] = value.v
                ELSE config[key] = pre[key] /\ WarningsFor(key) = 1

\* the local file names a JSON file as the APKTool archive after the
\* system-wide file had set a JAR file
C9_Witness ==
    /\ Given("apktool_file")
    /\ doc.toml["apktool_file"] = VString(<<"x", ".", "json">>)
    /\ pre.apktool_file = <<"d", "/", "y", ".", "jar">>
    /\ config.apktool_file = <<"d", "/", "y", ".", "jar">>
    /\ WarningsFor("apktool_file") = 1

\* the seven paths whose existence check() is documented to test
SevenPaths(c) ==
    {c.downloads_folder,
     Join(c.downloads_folder, c.app_package \o <<".", "apk">>),
     c.apktool_file, c.dex2jar_folder, c.jd_cmd_file,
     Join(c.templates_folder, c.template),
     c.rules_json}

\* C10: check() returns true exactly when the seven paths all exist.
C10_CheckIffSevenExist ==
    result # <<>> => (result[1] <=> SevenPaths(config) \subseteq fs)

\* check() answers true though neither the templates folder nor the dist
\* folder exists (the template is given by an absolute path)
C10_Witness ==
    /\ result = <<TRUE>>
    /\ config.templates_folder \notin fs
    /\ config.dist_folder \notin fs
    /\ config.results_folder \notin fs

(***************************************************************************)
(* get_errors() against check().                                           *)
(***************************************************************************)
\* the items check() tests, in the order it tests them
SevenItems(c) ==
    <<[item |-> "downloads_folder", path |-> c.downloads_folder],
      [item |-> "apk_file", path |-> GetApkFile(c)],
      [item |-> "apktool_file", path |-> c.apktool_file],
      [item |-> "dex2jar_folder", path |-> c.dex2jar_folder],
      [item |-> "jd_cmd_file", path |-> c.jd_cmd_file],
      [item |-> "template", path |-> GetTemplatePath(c)],
      [item |-> "rules_json", path |-> c.rules_json]>>

MissingOfSeven(c, files) ==
    {i \in 1..7 : SevenItems(c)[i].path \notin files}

\* C11: get_errors() returns one message for each of the seven items of
\* check() that is missing, as many messages as items are missing, and no
\* message about anything that is not one of the seven.
C11_ErrorsAreTheSevenMissing ==
    errors # <<>> =>
        LET e == errors[1]
            seven == SevenItems(config)
        IN  /\ Len(e) = Cardinality(MissingOfSeven(config, fs))
            /\ \A i \in MissingOfSeven(config, fs) :
                    Cardinality({j \in 1..Len(e) : e[j].item = seven[i].item}) = 1
            /\ \A j \in 1..Len(e) : \E i \in 1..7 : e[j].item = seven[i].item

\* C12: get_errors() returns no message exactly when check() returns true,
\* for one Config and one filesystem.
C12_NoErrorsIffCheck ==
    (result # <<>> /\ errors # <<>>) => (errors[1] = <<>> <=> result[1])

(***************************************************************************)
(* Config::new: the files it records.                                      *)
(***************************************************************************)
\* the candidate paths of the build for the target o, in the order checked
CandidatesOn(o) ==
    IF o = "windows" THEN <<WindowsConfig>> ELSE <<EtcConfig, LocalConfig>>

ExistingOf(paths, files) == SelectSeq(paths, LAMBDA p : p \in files)

\* c with the values Config::new stores from its arguments taken out
WithoutArgs(c) ==
    [c EXCEPT !.app_package = <<>>, !.verbose = FALSE, !.quiet = FALSE,
              !.force = FALSE, !.bench = FALSE, !.open = FALSE]

\* the candidates Config::new has passed when it is at the position p
PassedAt(p) ==
    CASE p \in {"default", "constructed", "etc", "win"} -> <<>>
      [] p = "local" -> <<EtcConfig>>
      [] OTHER -> CandidatesOn(os)

\* C13: when Config::new returns Ok the loaded files are the candidate paths
\* that exist, in the order checked (system-wide before local, the one local
\* path on windows), none twice; while it runs a path is in the sequence only
\* once its load has completed, a failed load adding nothing; and with no
\* candidate present the sequence is empty and every field but the injected
\* arguments has its default.
C13_LoadedFilesAreExistingCandidates ==
    LET existing == ExistingOf(CandidatesOn(os), fs)
        loaded == config.loaded_files
    IN  /\ pc = "ok" => loaded = existing
        /\ \A i, j \in 1..Len(loaded) : loaded[i] = loaded[j] => i = j
        /\ pc \in {"default", "constructed", "etc", "win", "local"} =>
               loaded = ExistingOf(PassedAt(pc), fs)
        /\ pc \in {"err", "exit"} =>
               /\ loaded = pre.loaded_files
               /\ Len(loaded) < Len(existing)
               /\ loaded = SubSeq(existing, 1, Len(loaded))
        /\ (pc = "ok" /\ existing = <<>>) =>
               /\ loaded = <<>>
               /\ WithoutArgs(config) = DefaultOn(os, fs)

\* Config::new returned Ok on a unix host where both files exist and the
\* system-wide one changed a field
C13_Witness ==
    /\ pc = "ok"
    /\ os = "macos"
    /\ config.loaded_files = <<EtcConfig, LocalConfig>>
    /\ doc.kind = "toml"
    /\ pre.threads # 2

(***************************************************************************)
(* Default::default().                                                     *)
(***************************************************************************)
NoConfigurationFile == \A i \in 1..Len(CandidatesOn(os)) : CandidatesOn(os)[i] \notin fs

\* what the defaults are said to be, but for the rules file
BuiltInValues(c) ==
    /\ c.threads = 2
    /\ c.downloads_folder = <<"downloads">>
    /\ c.dist_folder = <<"dist">>
    /\ c.results_folder = <<"results">>
    /\ c.template = <<"super">>
    /\ c.unknown_permission[1] = "Low"
    /\ c.permissions = {}
    /\ c.loaded_files = <<>>
    /\ ~c.verbose /\ ~c.quiet /\ ~c.force /\ ~c.bench /\ ~c.open
    /\ c.app_package = <<>>

\* C14 as stated: with no configuration file present the default Config has
\* threads 2, downloads "downloads", dist "dist", results "results", template
\* "super", rules file "rules.json", unknown-permission criticity Low, no
\* permission rule, no loaded file, the five booleans false and an empty
\* package name.
C14_DefaultsAsStated ==
    (pc = "constructed" /\ NoConfigurationFile) =>
        /\ BuiltInValues(config)
        /\ config.rules_json = <<"rules", ".", "json">>

\* C14: with no configuration file present the default Config has threads 2,
\* downloads "downloads", dist "dist", results "results", template "super",
\* unknown-permission criticity Low, no permission rule, no loaded file, the
\* five booleans false and an empty package name; its rules file is
\* "rules.json" unless the build is a unix one and /etc/super/rules.json
\* exists, and then it is /etc/super/rules.json.
C14_Defaults ==
    (pc = "constructed" /\ NoConfigurationFile) =>
        /\ BuiltInValues(config)
        /\ config.rules_json =
               IF os # "windows" /\ EtcRules \in fs
               THEN EtcRules
               ELSE <<"rules", ".", "json">>

\* Default::default() returned on a linux host that has the system-wide
\* rules file and no configuration file
C14_Witness ==
    /\ pc = "constructed"
    /\ NoConfigurationFile
    /\ os = "linux"
    /\ EtcRules \in fs
    /\ SharePath \notin fs
    /\ config.rules_json = EtcRules

\* the four tool and template paths of c are the ones below the directory
\* root, or the local ones when root is empty
ToolPathsBelow(c, root) ==
    LET prefix == IF root = <<>> THEN <<>> ELSE root \o <<"/">>
    IN  /\ c.apktool_file = prefix \o <<"vendor", "/">> \o ApktoolName
        /\ c.dex2jar_folder = prefix \o <<"vendor", "/">> \o Dex2jarName
        /\ c.jd_cmd_file = prefix \o <<"vendor", "/">> \o JdCmdName
        /\ c.templates_folder = prefix \o <<"templates">>

\* C15: the default Config of a unix build has /etc/super/rules.json as
\* rules file exactly when that file exists and "rules.json" otherwise; its
\* apktool file, dex2jar folder, jd-cmd file and templates folder are all
\* four below the shared directory exactly when that directory exists and
\* all four the local ones otherwise; either probe decides whatever the
\* other one found; the default Config of a windows build is the built-in
\* one whatever exists.
C15_DefaultProbes ==
    pc = "constructed" =>
        IF os = "windows"
        THEN config = local_default
        ELSE /\ (config.rules_json = EtcRules) <=> (EtcRules \in fs)
             /\ EtcRules \notin fs => config.rules_json = <<"rules", ".", "json">>
             /\ ToolPathsBelow(config, SharePathOf(os)) <=> (SharePathOf(os) \in fs)
             /\ SharePathOf(os) \notin fs => ToolPathsBelow(config, <<>>)
             /\ [config EXCEPT !.rules_json = local_default.rules_json,
                               !.apktool_file = local_default.apktool_file,
                               !.dex2jar_folder = local_default.dex2jar_folder,
                               !.jd_cmd_file = local_default.jd_cmd_file,
                               !.templates_folder = local_default.templates_folder]
                    = local_default

\* Default::default() returned on a linux host that has the shared
\* directory but not the system-wide rules file
C15_Witness ==
    /\ pc = "constructed"
    /\ os = "linux"
    /\ SharePath \in fs
    /\ EtcRules \notin fs
    /\ config.rules_json = <<"rules", ".", "json">>
    /\ config.templates_folder = <<"/", "usr", "/", "share", "/", "super", "/", "templates">>

(***************************************************************************)
(* load_from_file: what a load leaves alone.                               *)
(***************************************************************************)
\* c as load_from_file returned it: without the path Config::new pushes
\* once the load has returned
AsReturned(c) ==
    [c EXCEPT !.loaded_files = SubSeq(@, 1, Len(@) - 1)]

\* the key changes nothing: it is not a known one, or it is "permissions"
\* with a value that is not an array
Inert(key) ==
    /\ key \notin ScalarKeys
    /\ key = "permissions" => doc.toml[key].t # "Array"

\* C16: a load leaves the package name, the five flags and the loaded files
\* as they were (Config::new appends the path after the load has returned);
\* a scalar field changes only if the document holds the key of its name;
\* the permission set and the unknown-permission default change only if it
\* holds "permissions"; an unknown key, and "permissions" with a value that
\* is not an array, print one warning each and change nothing, so that a
\* document of such keys only leaves the whole Config as it was.
C16_LoadFrame ==
    Loaded =>
        LET c == AsReturned(config) IN
        /\ Len(config.loaded_files) = Len(pre.loaded_files) + 1
        /\ c.loaded_files = pre.loaded_files
        /\ c.app_package = pre.app_package
        /\ c.verbose = pre.verbose /\ c.quiet = pre.quiet /\ c.force = pre.force
        /\ c.bench = pre.bench /\ c.open = pre.open
        /\ \A f \in ScalarKeys : c[f] # pre[f] => f \in DOMAIN doc.toml
        /\ (c.permissions # pre.permissions \/ c.unknown_permission # pre.unknown_permission)
               => "permissions" \in DOMAIN doc.toml
        /\ \A k \in DOMAIN doc.toml : Inert(k) => WarningsFor(k) = 1
        /\ (\A k \in DOMAIN doc.toml : Inert(k)) =>
               /\ c = pre
               /\ Len(warnings) = Cardinality(DOMAIN doc.toml)

\* the second file held an unknown key and a "permissions" that is no array,
\* and was loaded into a Config the first file had changed
C16_Witness ==
    /\ pc = "ok"
    /\ Given("verbose")
    /\ Given("permissions")
    /\ doc.toml["permissions"].t # "Array"
    /\ Len(warnings) = 2
    /\ pre.verbose
    /\ AsReturned(config) = pre
    /\ pre.threads # 2

(***************************************************************************)
(* Loading one document twice.                                             *)
(***************************************************************************)
\* Config::new has loaded both files, and the second held what the first did
LoadedTwice == pc = "ok" /\ doc.kind = "toml" /\ Len(config.loaded_files) = 2

\* C17: loading a document that parses a second time right after the first
\* leaves the Config as the first load left it.
C17_SecondLoadChangesNothing ==
    LoadedTwice => AsReturned(config) = pre

\* a document with a permission rule and an unknown-permission entry was
\* loaded twice, and the first load had changed the Config
C17_Witness ==
    /\ LoadedTwice
    /\ Given("permissions")
    /\ config.permissions # {}
    /\ config.unknown_permission # local_default.unknown_permission
    /\ AsReturned(config) = pre

====
